---- MODULE Spec2Model ----
(***************************************************************************)
(* Diabetes-risk fusion pipeline: the fusion engine (EnsembleFusion), the  *)
(* fusion agent with the two classifier agents' result contracts, and the  *)
(* fusion weight optimizer (FusionWeightOptimizer).                        *)
(*                                                                         *)
(* Python floats are modelled as fixed-point integers in units of 1/One    *)
(* (One = 10000 stands for 1.0), rounded to the nearest unit after every   *)
(* multiplication and division, plus the IEEE value NaN, which every       *)
(* arithmetic operator propagates and every comparison answers FALSE on.   *)
(***************************************************************************)
EXTENDS Integers, Sequences, FiniteSets, TLC

VARIABLES artifact, engine, ret, opt, calls, dataset

vars == <<artifact, engine, ret, opt, calls, dataset>>

(***************************************************************************)
(* Floats                                                                  *)
(***************************************************************************)
One == 10000

NaN == -1073741824

Inf == 1073741823

IsNaN(x) == x = NaN

Abs(x) == IF x < 0 THEN -x ELSE x

\* round-to-nearest quotient of two integers, b # 0
RoundDiv(a, b) ==
    IF b > 0 THEN (2 * a + b) \div (2 * b) ELSE (2 * (-a) + (-b)) \div (2 * (-b))

FAdd(a, b) == IF IsNaN(a) \/ IsNaN(b) THEN NaN ELSE a + b

FSub(a, b) == IF IsNaN(a) \/ IsNaN(b) THEN NaN ELSE a - b

FMul(a, b) == IF IsNaN(a) \/ IsNaN(b) THEN NaN ELSE RoundDiv(a * b, One)

\* a / b for b # 0 (a zero divisor raises in Python and is tested by the caller)
FDiv(a, b) == IF IsNaN(a) \/ IsNaN(b) THEN NaN ELSE RoundDiv(a * One, b)

FLt(a, b) == ~IsNaN(a) /\ ~IsNaN(b) /\ a < b

FGt(a, b) == ~IsNaN(a) /\ ~IsNaN(b) /\ a > b

\* Python's builtin max(a, b) / min(a, b): the first argument unless the
\* second compares strictly greater / smaller (so a NaN first argument stays)
PyMax(a, b) == IF FGt(b, a) THEN b ELSE a

PyMin(a, b) == IF FLt(b, a) THEN b ELSE a

RECURSIVE SqrtSearch(_, _, _)
SqrtSearch(x, lo, hi) ==
    IF lo >= hi THEN lo
    ELSE LET mid == (lo + hi + 1) \div 2
         IN IF mid * mid <= x THEN SqrtSearch(x, mid, hi)
            ELSE SqrtSearch(x, lo, mid - 1)

\* np.sqrt of the product of two floats a*b (both in fixed point): the floor
\* of the square root, NaN for a negative product (numpy warns, never raises)
NpSqrtOfProduct(a, b) ==
    IF IsNaN(a) \/ IsNaN(b) THEN NaN
    ELSE IF a * b < 0 THEN NaN
    ELSE SqrtSearch(a * b, 0, 2 * One)

(***************************************************************************)
(* The weight artifact optimal_weights.json                                *)
(***************************************************************************)
\* a JSON value under a key: missing, a non-numeric value, or a number
JMissing == [k |-> "missing", v |-> 0]

JStr == [k |-> "str", v |-> 0]

JNum(n) == [k |-> "num", v |-> n]

ArtifactNumbers == {-5000, 0, 3000, 5000, 7000, 15000}

JValues == {JMissing, JStr} \cup {JNum(n) : n \in ArtifactNumbers}

Artifacts ==
    {[kind |-> "absent", retinal_weight |-> JMissing, lifestyle_weight |-> JMissing],
     [kind |-> "unparseable", retinal_weight |-> JMissing, lifestyle_weight |-> JMissing]}
    \cup [kind : {"object"}, retinal_weight : JValues, lifestyle_weight : JValues]

(***************************************************************************)
(* EnsembleFusion                                                          *)
(***************************************************************************)
DefaultWeight == 5000

LoadDefaultRetinal == 7000

LoadDefaultLifestyle == 3000

SumTolerance == 10

Methods == {"weighted_average", "max", "min", "geometric_mean", "learned"}

\* _load_optimized_weights: the pair <<retinal_weight, lifestyle_weight>> the
\* attributes hold when the method returns (it swallows every exception,
\* leaving whatever was assigned before the raise)
load_optimized_weights(art, rw0, lw0) ==
    IF art.kind # "object" THEN <<rw0, lw0>>
    ELSE LET rw == IF art.retinal_weight.k = "missing"
                   THEN JNum(LoadDefaultRetinal) ELSE art.retinal_weight
             lw == IF art.lifestyle_weight.k = "missing"
                   THEN JNum(LoadDefaultLifestyle) ELSE art.lifestyle_weight
         IN IF rw.k # "num" \/ lw.k # "num" THEN <<rw, lw>>
            ELSE LET total == rw.v + lw.v
                 IN IF Abs(total - One) > SumTolerance
                    THEN IF total = 0 THEN <<rw, lw>>
                         ELSE <<JNum(FDiv(rw.v, total)), JNum(FDiv(lw.v, total))>>
                    ELSE <<rw, lw>>

\* EnsembleFusion.__init__: the constructed engine, or state "raised" when
\* the closing log line cannot format a non-numeric weight with :.3f
EnsembleFusion_init(method, use_optimized_weights, art) ==
    LET w == IF method \in {"weighted_average", "learned"} \/ use_optimized_weights
             THEN load_optimized_weights(art, JNum(DefaultWeight), JNum(DefaultWeight))
             ELSE <<JNum(DefaultWeight), JNum(DefaultWeight)>>
    IN IF w[1].k # "num" \/ w[2].k # "num"
       THEN [state |-> "raised", method |-> method,
             use_optimized_weights |-> use_optimized_weights,
             retinal_weight |-> 0, lifestyle_weight |-> 0]
       ELSE [state |-> "built", method |-> method,
             use_optimized_weights |-> use_optimized_weights,
             retinal_weight |-> w[1].v, lifestyle_weight |-> w[2].v]

ConfBlendBase == 7000

ConfBlendShare == 3000

\* the confidence blend applied also when optimized weights are active
effective_weights_always_blend(self, retinal_confidence, lifestyle_confidence) ==
    LET rw == self.retinal_weight
        lw == self.lifestyle_weight
        total_confidence == FAdd(retinal_confidence, lifestyle_confidence)
    IN IF ~FGt(total_confidence, 0)
       THEN [raised |-> FALSE, r |-> rw, l |-> lw]
       ELSE LET cfr == FDiv(retinal_confidence, total_confidence)
                cfl == FDiv(lifestyle_confidence, total_confidence)
                rw2 == FAdd(FMul(rw, 7000), FMul(cfr, 3000))
                lw2 == FAdd(FMul(lw, 7000), FMul(cfl, 3000))
                total == FAdd(rw2, lw2)
            IN IF total = 0 THEN [raised |-> TRUE, r |-> rw2, l |-> lw2]
               ELSE [raised |-> FALSE, r |-> FDiv(rw2, total), l |-> FDiv(lw2, total)]

\* the weight pair _weighted_average multiplies the risks by; raised is TRUE
\* when the renormalising division divides by zero
effective_weights(self, retinal_confidence, lifestyle_confidence) ==
    LET rw == self.retinal_weight
        lw == self.lifestyle_weight
        total_confidence == FAdd(retinal_confidence, lifestyle_confidence)
    IN IF self.use_optimized_weights \/ ~FGt(total_confidence, 0)
       THEN [raised |-> FALSE, r |-> rw, l |-> lw]
       ELSE LET cfr == FDiv(retinal_confidence, total_confidence)
                cfl == FDiv(lifestyle_confidence, total_confidence)
                rw2 == FAdd(FMul(rw, ConfBlendBase), FMul(cfr, ConfBlendShare))
                lw2 == FAdd(FMul(lw, ConfBlendBase), FMul(cfl, ConfBlendShare))
                total == FAdd(rw2, lw2)
            IN IF total = 0 THEN [raised |-> TRUE, r |-> rw2, l |-> lw2]
               ELSE [raised |-> FALSE, r |-> FDiv(rw2, total), l |-> FDiv(lw2, total)]

\* a fusion that adds the two risks without weighting them
weighted_average_unweighted(self, retinal_risk, lifestyle_risk, retinal_confidence, lifestyle_confidence) ==
    [raised |-> FALSE, v |-> FAdd(retinal_risk, lifestyle_risk)]

weighted_average(self, retinal_risk, lifestyle_risk, retinal_confidence, lifestyle_confidence) ==
    LET w == effective_weights(self, retinal_confidence, lifestyle_confidence)
    IN IF w.raised THEN [raised |-> TRUE, v |-> 0]
       ELSE [raised |-> FALSE,
             v |-> FAdd(FMul(w.r, retinal_risk), FMul(w.l, lifestyle_risk))]

\* the value fuse computes inside its try block before clamping
fuse_raw(self, retinal_risk, lifestyle_risk, retinal_confidence, lifestyle_confidence) ==
    CASE self.method = "max" ->
            [raised |-> FALSE, v |-> PyMax(retinal_risk, lifestyle_risk)]
      [] self.method = "min" ->
            [raised |-> FALSE, v |-> PyMin(retinal_risk, lifestyle_risk)]
      [] self.method = "geometric_mean" ->
            [raised |-> FALSE, v |-> NpSqrtOfProduct(retinal_risk, lifestyle_risk)]
      [] OTHER ->
            weighted_average(self, retinal_risk, lifestyle_risk,
                             retinal_confidence, lifestyle_confidence)

\* the range clamp left out
clamp01_missing(x) == x

clamp01(x) == PyMin(PyMax(x, 0), One)

simple_average(retinal_risk, lifestyle_risk) ==
    IF IsNaN(retinal_risk) \/ IsNaN(lifestyle_risk) THEN NaN
    ELSE RoundDiv(retinal_risk + lifestyle_risk, 2)

\* EnsembleFusion.fuse
fuse(self, retinal_risk, lifestyle_risk, retinal_confidence, lifestyle_confidence) ==
    LET raw == fuse_raw(self, retinal_risk, lifestyle_risk,
                        retinal_confidence, lifestyle_confidence)
    IN IF raw.raised THEN simple_average(retinal_risk, lifestyle_risk)
       ELSE clamp01(raw.v)

(***************************************************************************)
(* RiskScorer (the part FusionAgent.execute stores in its result)          *)
(***************************************************************************)
LowBelow == 3000

ModerateBelow == 5000

HighBelow == 7000

\* a categorisation whose boundaries belong to the lower category
get_risk_level_closed(score) ==
    IF ~FGt(score, LowBelow) /\ ~IsNaN(score) THEN "low"
    ELSE IF ~FGt(score, ModerateBelow) /\ ~IsNaN(score) THEN "moderate"
    ELSE IF ~FGt(score, HighBelow) /\ ~IsNaN(score) THEN "high"
    ELSE "very_high"

get_risk_level(score) ==
    IF FLt(score, LowBelow) THEN "low"
    ELSE IF FLt(score, ModerateBelow) THEN "moderate"
    ELSE IF FLt(score, HighBelow) THEN "high"
    ELSE "very_high"

BaseConfidence == 7500

ConfidenceStep == 1000

BorderlineWidth == 500

ManyFactors == 3

ConfidenceFloor == 5000

ConfidenceCeiling == 9500

\* the scores at a decimal distance of exactly 0.05 from a threshold whose
\* double-precision abs(score - threshold) comes out below the double 0.05:
\* 0.25, 0.35, 0.45 and 0.65 do, 0.55 and 0.75 do not
RoundsBelowWidth ==
    {<<LowBelow - BorderlineWidth, LowBelow>>,
     <<LowBelow + BorderlineWidth, LowBelow>>,
     <<ModerateBelow - BorderlineWidth, ModerateBelow>>,
     <<HighBelow - BorderlineWidth, HighBelow>>}

\* abs(score - threshold) < 0.05, as double arithmetic evaluates it
near_threshold(score, threshold) ==
    /\ ~IsNaN(score)
    /\ \/ Abs(score - threshold) < BorderlineWidth
       \/ Abs(score - threshold) = BorderlineWidth
             /\ <<score, threshold>> \in RoundsBelowWidth

calculate_confidence(score, findings_nonempty, n_factors) ==
    LET c1 == BaseConfidence + (IF findings_nonempty THEN ConfidenceStep ELSE 0)
        c2 == c1 + (IF n_factors >= ManyFactors THEN ConfidenceStep ELSE 0)
        borderline == \E t \in {LowBelow, ModerateBelow, HighBelow} :
                         near_threshold(score, t)
        c3 == IF borderline THEN c2 - ConfidenceStep ELSE c2
    IN PyMin(PyMax(c3, ConfidenceFloor), ConfidenceCeiling)

(***************************************************************************)
(* The classifier agents' results, as the dicts their execute returns      *)
(***************************************************************************)
\* dict.get(key, default)
Get(d, key, default) == IF key \in d.keys THEN d[key] ELSE default

NoneSeverityBelow == 3000

MildSeverityBelow == 5000

ModerateSeverityBelow == 7000

determine_severity(dr_probability) ==
    IF dr_probability < NoneSeverityBelow THEN "none"
    ELSE IF dr_probability < MildSeverityBelow THEN "mild"
    ELSE IF dr_probability < ModerateSeverityBelow THEN "moderate"
    ELSE "severe"

FallbackConfidence == 5000

\* RetinalAgent.execute: outcome "error" (no image, or inference raised),
\* "fallback" (model not loaded) or "model" (CNN inference ran)
RetinalAgent_execute(outcome, dr_probability, confidence) ==
    CASE outcome = "error" ->
            [keys |-> {"status", "dr_detected", "severity", "confidence"},
             status |-> "error", severity |-> "None", confidence |-> 0,
             dr_probability |-> 0, findings_nonempty |-> FALSE]
      [] outcome = "fallback" ->
            [keys |-> {"status", "dr_detected", "severity", "confidence",
                       "findings", "dr_probability"},
             status |-> "success", severity |-> "none",
             confidence |-> FallbackConfidence,
             dr_probability |-> 0, findings_nonempty |-> FALSE]
      [] OTHER ->
            [keys |-> {"status", "dr_detected", "severity", "confidence",
                       "findings", "dr_probability"},
             status |-> "success", severity |-> determine_severity(dr_probability),
             confidence |-> confidence,
             dr_probability |-> dr_probability, findings_nonempty |-> TRUE]

MinProb == 4000

MaxProb == 10000

\* a prediction step that passes the raw probability on
calibrate_probability_missing(prob) == prob

calibrate_probability(prob) ==
    IF ~IsNaN(prob) /\ prob <= MinProb THEN 0
    ELSE IF ~IsNaN(prob) /\ prob >= MaxProb THEN One
    ELSE PyMin(PyMax(FDiv(prob - MinProb, MaxProb - MinProb), 0), One)

\* LifestyleAgent.execute: outcome "error" (no data, model not loaded, or
\* inference raised) or "model"; raw is predict_proba's class-1 probability
LifestyleAgent_execute(outcome, raw, n_factors) ==
    IF outcome = "error"
    THEN [keys |-> {"status", "risk_score", "confidence"},
          status |-> "error", risk_score |-> 0, confidence |-> 0, n_factors |-> 0]
    ELSE [keys |-> {"status", "risk_score", "risk_probability", "confidence",
                    "key_factors"},
          status |-> "success", risk_score |-> calibrate_probability(raw),
          confidence |-> PyMax(raw, One - raw), n_factors |-> n_factors]

(***************************************************************************)
(* FusionAgent                                                             *)
(***************************************************************************)
NeutralRisk == 5000

NeutralConfidence == 5000

ProbabilityShare == 8000

SeverityShare == 2000

MildWeight == 2000

ModerateWeight == 5000

SevereWeight == 7000

severity_weight(severity) ==
    CASE severity = "mild" -> MildWeight
      [] severity = "moderate" -> ModerateWeight
      [] severity = "severe" -> SevereWeight
      [] OTHER -> 0

extract_retinal_risk(retinal_result) ==
    IF Get(retinal_result, "status", "None") # "success" THEN NeutralRisk
    ELSE LET dr_probability == Get(retinal_result, "dr_probability", 0)
             severity_score == severity_weight(Get(retinal_result, "severity", "none"))
             risk_score == FAdd(FMul(dr_probability, ProbabilityShare),
                                FMul(severity_score, SeverityShare))
         IN PyMin(PyMax(2 * risk_score, 0), One)

\* the arguments FusionAgent.execute passes to ensemble.fuse
fusion_inputs(retinal_result, lifestyle_result) ==
    [retinal_risk |-> extract_retinal_risk(retinal_result),
     lifestyle_risk |-> Get(lifestyle_result, "risk_score", NeutralRisk),
     retinal_confidence |-> Get(retinal_result, "confidence", NeutralConfidence),
     lifestyle_confidence |-> Get(lifestyle_result, "confidence", NeutralConfidence)]

\* FusionAgent.execute (self.ensemble is EnsembleFusion() with its defaults)
FusionAgent_execute(ensemble, retinal_result, lifestyle_result) ==
    LET in == fusion_inputs(retinal_result, lifestyle_result)
        fused_score == fuse(ensemble, in.retinal_risk, in.lifestyle_risk,
                            in.retinal_confidence, in.lifestyle_confidence)
    IN [status |-> "success",
        risk_score |-> fused_score,
        risk_level |-> get_risk_level(fused_score),
        confidence |-> calculate_confidence(
                          fused_score,
                          "findings" \in retinal_result.keys
                             /\ retinal_result.findings_nonempty,
                          IF "key_factors" \in lifestyle_result.keys
                          THEN lifestyle_result.n_factors ELSE 0),
        component_scores |-> [retinal |-> in.retinal_risk,
                              lifestyle |-> in.lifestyle_risk]]

(***************************************************************************)
(* Inputs                                                                  *)
(***************************************************************************)
Risks == {NaN, -5000, 0, 4000, 8000, 10000, 15000}

Confidences == {0, 5000, 10000}

DrProbabilities == {0, 2000, 6000, 10000}

ModelConfidences == {6000, 9000}

RawProbabilities == {2000, 4000, 7000, 10000}

MaxFactors == 3

RetinalResults ==
    {RetinalAgent_execute("error", 0, 0), RetinalAgent_execute("fallback", 0, 0)}
    \cup {RetinalAgent_execute("model", p, c) :
             p \in DrProbabilities, c \in ModelConfidences}

LifestyleResults ==
    {LifestyleAgent_execute("error", 0, 0)}
    \cup {LifestyleAgent_execute("model", raw, n) :
             raw \in RawProbabilities, n \in {0, MaxFactors}}

NoRet == [op |-> "none"]

NoOpt == [state |-> "none"]

\* no labelled data loaded
NoData == [y_true |-> <<>>, retinal_preds |-> <<>>, lifestyle_preds |-> <<>>]

(***************************************************************************)
(* Fusion engine and fusion agent: state machine                           *)
(***************************************************************************)
Init ==
    /\ artifact \in Artifacts
    /\ engine = [state |-> "unbuilt", method |-> "weighted_average",
                 use_optimized_weights |-> TRUE,
                 retinal_weight |-> DefaultWeight, lifestyle_weight |-> DefaultWeight]
    /\ ret = NoRet
    /\ opt = NoOpt
    /\ calls = 0
    /\ dataset = NoData

\* EnsembleFusion(method, use_optimized_weights)
Construct ==
    /\ engine.state = "unbuilt"
    /\ \E method \in Methods, use_optimized_weights \in BOOLEAN :
          engine' = EnsembleFusion_init(method, use_optimized_weights, artifact)
    /\ UNCHANGED <<artifact, ret, opt, calls, dataset>>

\* a caller's engine.fuse(...) call; ret is what it was called with and returned
Fuse ==
    /\ engine.state = "built"
    /\ ret = NoRet
    /\ \E r \in Risks, l \in Risks, rc \in Confidences, lc \in Confidences :
          ret' = [op |-> "fuse", retinal_risk |-> r, lifestyle_risk |-> l,
                  retinal_confidence |-> rc, lifestyle_confidence |-> lc,
                  out |-> fuse(engine, r, l, rc, lc)]
    /\ UNCHANGED <<artifact, engine, opt, calls, dataset>>

\* the orchestrator's fusion step on the two classifier results
AgentExecute ==
    /\ engine.state = "built"
    /\ engine.method = "weighted_average"
    /\ engine.use_optimized_weights
    /\ ret = NoRet
    /\ \E rr \in RetinalResults, lr \in LifestyleResults :
          ret' = [op |-> "fusion_agent", retinal_result |-> rr,
                  lifestyle_result |-> lr,
                  fuse_args |-> fusion_inputs(rr, lr),
                  result |-> FusionAgent_execute(engine, rr, lr)]
    /\ UNCHANGED <<artifact, engine, opt, calls, dataset>>

\* the caller takes the returned value; the engine serves the next request
Return ==
    /\ ret # NoRet
    /\ ret.op \in {"fuse", "fusion_agent"}
    /\ ret' = NoRet
    /\ UNCHANGED <<artifact, engine, opt, calls, dataset>>

NextFusion == Construct \/ Fuse \/ AgentExecute \/ Return

SpecFusion == Init /\ [][NextFusion]_vars

(***************************************************************************)
(* FusionWeightOptimizer                                                   *)
(*                                                                         *)
(* Weights, predictions, gradients and the learning rate are floats in     *)
(* units of 1/One; losses are kept in units of 1/(One*One), the unit of a  *)
(* squared error, so that the comparison of two losses is not blurred.     *)
(***************************************************************************)
DefaultLearningRate == 100

DefaultRegularization == 10

InitDefaultWeight == 5000

ClipLow == 100

ClipHigh == 9900

\* Op applied to the value of v, computed once
With(v, Op(_)) == CHOOSE out \in {Op(x) : x \in {v}} : TRUE

RECURSIVE SumTo(_, _)
\* f[1] + ... + f[n]
SumTo(f, n) == IF n = 0 THEN 0 ELSE f[n] + SumTo(f, n - 1)

\* an initial weight pair, or None for "load from the artifact"
None == <<>>

\* FusionWeightOptimizer.__init__; state "raised" when the normalising
\* division raises (weights that are not numbers, or that sum to 0).  With
\* no initial weights given both are read from the artifact; a value that the
\* log line cannot format as a float falls back to the defaults.
FusionWeightOptimizer_init(initial, learning_rate, regularization, art) ==
    LET got == <<IF art.retinal_weight.k = "missing"
                 THEN JNum(InitDefaultWeight) ELSE art.retinal_weight,
                 IF art.lifestyle_weight.k = "missing"
                 THEN JNum(InitDefaultWeight) ELSE art.lifestyle_weight>>
        loaded ==
            IF initial # None THEN <<initial[1], initial[2]>>
            ELSE IF \/ art.kind = "absent" \/ art.kind = "unparseable"
                    \/ got[1].k # "num" \/ got[2].k # "num"
            THEN <<JNum(InitDefaultWeight), JNum(InitDefaultWeight)>>
            ELSE got
        raised == \/ loaded[1].k # "num" \/ loaded[2].k # "num"
                  \/ loaded[1].v + loaded[2].v = 0
        total == loaded[1].v + loaded[2].v
        w1 == IF raised THEN 0 ELSE FDiv(loaded[1].v, total)
        w2 == IF raised THEN 0 ELSE FDiv(loaded[2].v, total)
    IN [state |-> IF raised THEN "raised" ELSE "live",
        w1 |-> w1, w2 |-> w2,
        learning_rate |-> learning_rate, regularization |-> regularization,
        training_history |-> <<>>,
        best_weights |-> <<w1, w2>>,
        best_loss |-> Inf]

\* FusionWeightOptimizer.load_weights(filepath), file being what is stored at
\* filepath and art the artifact next to the module: a missing file gives
\* cls(); json.load and the two subscripts raise on an unparseable file and
\* on a missing key
load_weights(file, art) ==
    IF file.kind = "absent"
    THEN FusionWeightOptimizer_init(None, DefaultLearningRate, DefaultRegularization, art)
    ELSE IF \/ file.kind = "unparseable"
            \/ file.retinal_weight.k = "missing"
            \/ file.lifestyle_weight.k = "missing"
    THEN [state |-> "raised"]
    ELSE LET optimizer == FusionWeightOptimizer_init(
                              <<file.retinal_weight, file.lifestyle_weight>>,
                              DefaultLearningRate, DefaultRegularization, art)
         IN IF optimizer.state = "raised" THEN optimizer
            ELSE [optimizer EXCEPT
                    !.training_history =
                        IF "training_history" \in DOMAIN file
                        THEN file.training_history ELSE @,
                    !.best_loss =
                        IF "best_loss" \in DOMAIN file THEN file.best_loss ELSE @]

\* numpy's broadcasting of two 1-d arrays of lengths a and b: the length of
\* the elementwise result, or NoShape when the operation raises ValueError
NoShape == -1

np_broadcast(a, b) ==
    IF a = b THEN a ELSE IF a = 1 THEN b ELSE IF b = 1 THEN a ELSE NoShape

\* element i of an array taking part in a broadcast operation
At(arr, i) == IF Len(arr) = 1 THEN arr[1] ELSE arr[i]

\* the length of y_pred = w1 * retinal_preds + w2 * lifestyle_preds
y_pred_len(data) == np_broadcast(Len(data.retinal_preds), Len(data.lifestyle_preds))

\* compute_loss raises: the weighted sum does not broadcast, or sklearn's
\* mean_squared_error finds no sample or inconsistent numbers of samples
compute_loss_raises(data) ==
    \/ y_pred_len(data) = NoShape
    \/ Len(data.y_true) = 0
    \/ Len(data.y_true) # y_pred_len(data)

\* compute_loss, in units of 1/(One*One); the w2 argument is overwritten
compute_loss(self, data, w1, w2_ignored) ==
    LET w2 == One - w1
        n == Len(data.y_true)
        y_pred == [i \in 1..n |->
                     RoundDiv(w1 * At(data.retinal_preds, i)
                              + w2 * At(data.lifestyle_preds, i), One)]
        sq == [i \in 1..n |-> (data.y_true[i] - y_pred[i]) * (data.y_true[i] - y_pred[i])]
        mse_loss == RoundDiv(SumTo(sq, n), n)
        reg_loss == RoundDiv(RoundDiv(w1 * w1 + w2 * w2, 100) * self.regularization, 100)
    IN mse_loss + reg_loss

\* compute_gradient, in units of 1/One
compute_gradient(self, data, w1) ==
    LET w2 == One - w1
        n == Len(data.y_true)
        y_pred == [i \in 1..n |->
                     RoundDiv(w1 * At(data.retinal_preds, i)
                              + w2 * At(data.lifestyle_preds, i), One)]
        prod == [i \in 1..n |->
                   (y_pred[i] - data.y_true[i])
                   * (At(data.retinal_preds, i) - At(data.lifestyle_preds, i))]
        mse_gradient == RoundDiv(2 * SumTo(prod, n), n * One)
        reg_gradient == RoundDiv(2 * self.regularization * (w1 - w2), One)
    IN mse_gradient + reg_gradient

\* a train_batch that forgets to clip the updated weight
np_clip_missing(x, lo, hi) == x

np_clip(x, lo, hi) == IF x < lo THEN lo ELSE IF x > hi THEN hi ELSE x

\* one iteration of train_batch's loop
train_epoch(self, data, epoch) ==
    LET current_loss == compute_loss(self, data, self.w1, self.w2)
        gradient == compute_gradient(self, data, self.w1)
        w1 == np_clip(self.w1 - FMul(self.learning_rate, gradient), ClipLow, ClipHigh)
        w2 == One - w1
        better == current_loss < self.best_loss
    IN [self EXCEPT
          !.w1 = w1,
          !.w2 = w2,
          !.best_loss = IF better THEN current_loss ELSE @,
          !.best_weights = IF better THEN <<w1, w2>> ELSE @,
          !.training_history =
              Append(@, [epoch |-> epoch, loss |-> current_loss,
                         w1 |-> w1, w2 |-> w2, gradient |-> gradient])]

RECURSIVE train_loop(_, _, _, _)
\* iterations epoch .. epochs-1 of train_batch's loop, in order (evaluated as
\* the first half followed by the second half, to keep the evaluation shallow)
train_loop(self, data, epoch, epochs) ==
    IF epoch >= epochs THEN self
    ELSE IF epoch + 1 = epochs THEN train_epoch(self, data, epoch)
    ELSE LET mid == (epoch + epochs) \div 2
         IN With(train_loop(self, data, epoch, mid),
                 LAMBDA half : train_loop(half, data, mid, epochs))

HistoryTail == 10

LastN(seq, n) ==
    IF Len(seq) <= n THEN seq ELSE SubSeq(seq, Len(seq) - n + 1, Len(seq))

\* what a call that raised leaves in place of a returned dict
NoResult == [raised |-> TRUE]

\* train_batch: the optimizer afterwards (self) and the returned dict (result);
\* the first epoch's compute_loss raises before anything is assigned
train_batch(self, data, epochs) ==
    IF epochs > 0 /\ compute_loss_raises(data)
    THEN [self |-> self, raised |-> TRUE, result |-> NoResult]
    ELSE With(train_loop(self, data, 0, epochs),
              LAMBDA trained :
                 [self |-> [trained EXCEPT !.w1 = trained.best_weights[1],
                                           !.w2 = trained.best_weights[2]],
                  raised |-> FALSE,
                  result |-> [best_weights |-> trained.best_weights,
                              best_loss |-> trained.best_loss,
                              final_weights |-> trained.best_weights,
                              history |-> LastN(trained.training_history, HistoryTail)]])

CVInitialW1 == 7000

CVInitialW2 == 3000

CVEpochs == 50

RECURSIVE cv_loop(_, _, _, _, _)
\* folds i .. of cross_validate_weights with method 'gradient': the optimizer
\* afterwards and the collected cv_weights and cv_losses; a fold whose
\* train_batch raises ends the loop with the weights already reset
cv_loop(self, data_splits, i, cv_weights, cv_losses) ==
    IF i > Len(data_splits)
    THEN [self |-> self, raised |-> FALSE,
          cv_weights |-> cv_weights, cv_losses |-> cv_losses]
    ELSE With(train_batch([self EXCEPT !.w1 = CVInitialW1, !.w2 = CVInitialW2],
                          data_splits[i], CVEpochs),
              LAMBDA run :
                 IF run.raised
                 THEN [self |-> run.self, raised |-> TRUE,
                       cv_weights |-> cv_weights, cv_losses |-> cv_losses]
                 ELSE cv_loop(run.self, data_splits, i + 1,
                              Append(cv_weights, run.result.best_weights),
                              Append(cv_losses, run.result.best_loss)))

\* np.mean of a sequence of numbers (NaN, with a warning, for an empty one)
np_mean(seq) == IF Len(seq) = 0 THEN NaN ELSE RoundDiv(SumTo(seq, Len(seq)), Len(seq))

\* np.std: the population standard deviation
np_std(seq) ==
    IF Len(seq) = 0 THEN NaN
    ELSE LET m == np_mean(seq)
             sq == [i \in 1..Len(seq) |-> (seq[i] - m) * (seq[i] - m)]
         IN SqrtSearch(RoundDiv(SumTo(sq, Len(seq)), Len(seq)), 0, 2 * One)

\* cross_validate_weights(data_splits, method='gradient')
cross_validate_weights(self, data_splits) ==
    LET cv == With(cv_loop(self, data_splits, 1, <<>>, <<>>), LAMBDA x : x)
        w1s == [i \in 1..Len(cv.cv_weights) |-> cv.cv_weights[i][1]]
        w2s == [i \in 1..Len(cv.cv_weights) |-> cv.cv_weights[i][2]]
        avg_w1 == np_mean(w1s)
        avg_w2 == np_mean(w2s)
        total == FAdd(avg_w1, avg_w2)
    IN IF cv.raised
       THEN [self |-> cv.self, raised |-> TRUE, result |-> NoResult]
       ELSE [self |-> cv.self, raised |-> FALSE,
             result |-> [average_weights |->
                             IF IsNaN(total) \/ total = 0 THEN <<NaN, NaN>>
                             ELSE <<FDiv(avg_w1, total), FDiv(avg_w2, total)>>,
                         std_w1 |-> np_std(w1s),
                         std_w2 |-> np_std(w2s),
                         average_loss |-> np_mean(cv.cv_losses),
                         all_weights |-> cv.cv_weights]]

DefaultRetinalBias == 1000

BiasedLow == 5000

BiasedHigh == 9500

FullLow == 100

FullHigh == 9900

FailedW1 == 8500

FailedW2 == 1500

\* the search interval of optimize_with_scipy
scipy_bounds(retinal_bias) ==
    IF retinal_bias > 0 THEN <<BiasedLow, BiasedHigh>> ELSE <<FullLow, FullHigh>>

\* the starting points that are not skipped as lying outside the bounds
scipy_starts(self, multi_start, retinal_bias) ==
    LET initial_points == IF multi_start THEN {1000, 3000, 5000, 7000, 9000}
                          ELSE {self.w1}
        bounds == scipy_bounds(retinal_bias)
    IN {x0 \in initial_points : ~(x0 < bounds[1] \/ x0 > bounds[2])}

\* what scipy's bounded L-BFGS-B search may return as result.x: the solver is
\* outside the repository, so all that is used of it is that its result lies
\* within the bounds; the ends of the interval stand for the interval
minimize_results(retinal_bias) == {scipy_bounds(retinal_bias)[1], scipy_bounds(retinal_bias)[2]}

\* optimize_with_scipy, x being the result.x of the start with the lowest
\* actual loss: the objective's compute_loss raises on the first start tried
optimize_with_scipy(self, data, multi_start, retinal_bias, x) ==
    IF scipy_starts(self, multi_start, retinal_bias) = {}
    THEN [self |-> self, raised |-> FALSE,
          result |-> [optimal_w1 |-> FailedW1, optimal_w2 |-> FailedW2,
                      optimal_loss |-> Inf, success |-> FALSE]]
    ELSE IF compute_loss_raises(data)
    THEN [self |-> self, raised |-> TRUE, result |-> NoResult]
    ELSE [self |-> [self EXCEPT !.w1 = x, !.w2 = One - x],
          raised |-> FALSE,
          result |-> [optimal_w1 |-> x, optimal_w2 |-> One - x,
                      optimal_loss |-> compute_loss(self, data, x, One - x),
                      success |-> TRUE]]

(***************************************************************************)
(* Weight optimizer: inputs and state machine                              *)
(*                                                                         *)
(* As in train_fusion_weights.py, one labelled data set is loaded and the  *)
(* optimizer's methods are called on it; cross-validation gets it cut into *)
(* consecutive folds.                                                      *)
(***************************************************************************)
MaxEpochs == 3

MaxFolds == 2

MaxCalls == 2

ConvergenceEpochs == 200

\* labelled sets of (y_true, retinal_pred, lifestyle_pred) triples; in the
\* second and third the retinal prediction equals the label, and in the third
\* the lifestyle prediction is close to it
Pools ==
    {[y_true |-> <<One, 0, One>>,
      retinal_preds |-> <<6000, 2000, 9000>>,
      lifestyle_preds |-> <<2000, 4000, 6000>>],
     [y_true |-> <<One, 0, One>>,
      retinal_preds |-> <<One, 0, One>>,
      lifestyle_preds |-> <<4000, 6000, 2000>>],
     [y_true |-> <<One, 0>>,
      retinal_preds |-> <<One, 0>>,
      lifestyle_preds |-> <<8000, 2000>>]}

\* arrays of unequal length: a one-element retinal array, a retinal array one
\* short, a label array one short
MismatchedData ==
    {[y_true |-> <<One, 0, One>>,
      retinal_preds |-> <<6000>>,
      lifestyle_preds |-> <<2000, 4000, 6000>>],
     [y_true |-> <<One, 0, One>>,
      retinal_preds |-> <<6000, 2000>>,
      lifestyle_preds |-> <<2000, 4000, 6000>>],
     [y_true |-> <<One, 0>>,
      retinal_preds |-> <<6000, 2000, 9000>>,
      lifestyle_preds |-> <<2000, 4000, 6000>>]}

SameLength(d) ==
    Len(d.y_true) = Len(d.retinal_preds) /\ Len(d.y_true) = Len(d.lifestyle_preds)

Datasets == Pools \cup MismatchedData

Slice(pool, i, j) ==
    [y_true |-> SubSeq(pool.y_true, i, j),
     retinal_preds |-> SubSeq(pool.retinal_preds, i, j),
     lifestyle_preds |-> SubSeq(pool.lifestyle_preds, i, j)]

RECURSIVE SplitsFrom(_, _, _)
\* the ways to cut examples start.. of a pool into k consecutive folds
SplitsFrom(pool, start, k) ==
    LET n == Len(pool.y_true)
    IN IF k = 1 THEN (IF start <= n THEN {<<Slice(pool, start, n)>>} ELSE {})
       ELSE UNION {{<<Slice(pool, start, c)>> \o rest :
                       rest \in SplitsFrom(pool, c + 1, k - 1)} :
                   c \in start..(n - k + 1)}

\* the data_splits handed to cross_validate_weights: the loaded set cut into
\* at most MaxFolds folds (kept whole when its arrays differ in length), or
\* no fold at all
DataSplits(d) ==
    IF SameLength(d)
    THEN {<<>>} \cup UNION {SplitsFrom(d, 1, k) : k \in 1..MaxFolds}
    ELSE {<<>>, <<d>>}

EpochChoices == {0, 1, MaxEpochs, ConvergenceEpochs}

LearningRates == {DefaultLearningRate, 15000}

InitialWeights == {None, <<5000, 5000>>, <<3000, 9000>>, <<-5000, 15000>>}

RetinalBiases == {0, DefaultRetinalBias}

OptArtifacts ==
    {a \in Artifacts :
        \/ a.kind = "absent"
        \/ /\ a.kind = "object"
           /\ a.retinal_weight = JNum(7000)
           /\ a.lifestyle_weight = JNum(3000)}

InitOpt ==
    /\ artifact \in OptArtifacts
    /\ engine = [state |-> "unbuilt", method |-> "weighted_average",
                 use_optimized_weights |-> TRUE,
                 retinal_weight |-> DefaultWeight, lifestyle_weight |-> DefaultWeight]
    /\ ret = NoRet
    /\ opt = NoOpt
    /\ calls = 0
    /\ dataset \in Datasets

\* FusionWeightOptimizer(initial_w1, initial_w2, learning_rate)
NewOptimizer ==
    /\ opt.state = "none"
    /\ \E initial \in InitialWeights, learning_rate \in LearningRates :
          opt' = FusionWeightOptimizer_init(
                     IF initial = None THEN None
                     ELSE <<JNum(initial[1]), JNum(initial[2])>>,
                     learning_rate, DefaultRegularization, artifact)
    /\ UNCHANGED <<artifact, engine, ret, calls, dataset>>

\* optimizer.train_batch(y_true, retinal_preds, lifestyle_preds, epochs)
TrainBatch ==
    /\ opt.state = "live"
    /\ calls < MaxCalls
    /\ \E epochs \in EpochChoices :
       \E run \in {train_batch(opt, dataset, epochs)} :
             /\ opt' = run.self
             /\ ret' = IF run.raised
                       THEN [op |-> "raise", call |-> "train_batch",
                             data |-> dataset, epochs |-> epochs]
                       ELSE [op |-> "train_batch", data |-> dataset,
                             epochs |-> epochs, result |-> run.result]
    /\ calls' = calls + 1
    /\ UNCHANGED <<artifact, engine, dataset>>

\* optimizer.cross_validate_weights(data_splits, method='gradient')
CrossValidate ==
    /\ opt.state = "live"
    /\ calls < MaxCalls
    /\ \E data_splits \in DataSplits(dataset) :
       \E run \in {cross_validate_weights(opt, data_splits)} :
             /\ opt' = run.self
             /\ ret' = IF run.raised
                       THEN [op |-> "raise", call |-> "cross_validate",
                             data_splits |-> data_splits]
                       ELSE [op |-> "cross_validate", data_splits |-> data_splits,
                             result |-> run.result]
    /\ calls' = calls + 1
    /\ UNCHANGED <<artifact, engine, dataset>>

\* optimizer.optimize_with_scipy(y_true, retinal_preds, lifestyle_preds,
\*                               multi_start, retinal_bias)
OptimizeWithScipy ==
    /\ opt.state = "live"
    /\ calls < MaxCalls
    /\ \E multi_start \in BOOLEAN, retinal_bias \in RetinalBiases :
       \E x \in minimize_results(retinal_bias) :
       \E run \in {optimize_with_scipy(opt, dataset, multi_start, retinal_bias, x)} :
             /\ opt' = run.self
             /\ ret' = IF run.raised
                       THEN [op |-> "raise", call |-> "optimize_with_scipy",
                             data |-> dataset, multi_start |-> multi_start,
                             retinal_bias |-> retinal_bias]
                       ELSE [op |-> "optimize_with_scipy", data |-> dataset,
                             multi_start |-> multi_start,
                             retinal_bias |-> retinal_bias,
                             result |-> run.result]
    /\ calls' = calls + 1
    /\ UNCHANGED <<artifact, engine, dataset>>

SavedTail == 20

\* json.dump of a float: its shortest repr, or the token Infinity / NaN
json_dump_float(x) ==
    IF x = Inf THEN [tok |-> "Infinity"]
    ELSE IF IsNaN(x) THEN [tok |-> "NaN"]
    ELSE [tok |-> "number", digits |-> x]

\* json.load of such a number
json_load_float(text) ==
    IF text.tok = "Infinity" THEN Inf
    ELSE IF text.tok = "NaN" THEN NaN
    ELSE text.digits

\* a save that keeps the first entries of the history
saved_history_head(training_history) ==
    IF Len(training_history) <= SavedTail THEN training_history
    ELSE SubSeq(training_history, 1, SavedTail)

\* self.training_history[-20:] if self.training_history else []
saved_history(training_history) == LastN(training_history, SavedTail)

\* the text save_weights writes: the numbers as json.dump prints them
save_weights(self) ==
    [retinal_weight |-> json_dump_float(self.w1),
     lifestyle_weight |-> json_dump_float(self.w2),
     best_loss |-> json_dump_float(self.best_loss),
     training_history |->
        LET kept == saved_history(self.training_history)
        IN [i \in 1..Len(kept) |->
               [epoch |-> kept[i].epoch,
                loss |-> json_dump_float(kept[i].loss),
                w1 |-> json_dump_float(kept[i].w1),
                w2 |-> json_dump_float(kept[i].w2),
                gradient |-> json_dump_float(kept[i].gradient)]]]

\* what json.load makes of the text save_weights wrote
json_load_saved(text) ==
    [kind |-> "object",
     retinal_weight |-> JNum(json_load_float(text.retinal_weight)),
     lifestyle_weight |-> JNum(json_load_float(text.lifestyle_weight)),
     best_loss |-> json_load_float(text.best_loss),
     training_history |->
        [i \in 1..Len(text.training_history) |->
            [epoch |-> text.training_history[i].epoch,
             loss |-> json_load_float(text.training_history[i].loss),
             w1 |-> json_load_float(text.training_history[i].w1),
             w2 |-> json_load_float(text.training_history[i].w2),
             gradient |-> json_load_float(text.training_history[i].gradient)]]]

\* optimizer.save_weights(filepath); ret holds the written file
SaveWeights ==
    /\ opt.state = "live"
    /\ calls < MaxCalls
    /\ ret' = [op |-> "save_weights", self |-> opt, text |-> save_weights(opt)]
    /\ calls' = calls + 1
    /\ UNCHANGED <<artifact, engine, opt, dataset>>

\* FusionWeightOptimizer.load_weights(filepath) on the file just saved
LoadSaved ==
    /\ ret.op = "save_weights"
    /\ \E optimizer \in {load_weights(json_load_saved(ret.text), artifact)} :
          IF optimizer.state = "raised"
          THEN /\ ret' = [op |-> "raise", call |-> "load_saved",
                          saved |-> ret.self]
               /\ opt' = opt
          ELSE /\ ret' = [op |-> "load_saved", saved |-> ret.self]
               /\ opt' = optimizer
    /\ UNCHANGED <<artifact, engine, calls, dataset>>

\* the files load_weights is pointed at: none, one that is not JSON, a saved
\* weight pair, and objects lacking one or both weight keys
WeightFiles ==
    {a \in Artifacts :
        \/ a.kind # "object"
        \/ /\ a.retinal_weight \in {JMissing, JNum(7000)}
           /\ a.lifestyle_weight \in {JMissing, JNum(3000)}}

\* FusionWeightOptimizer.load_weights(filepath)
LoadWeights ==
    /\ opt.state = "none"
    /\ ret = NoRet
    /\ \E file \in WeightFiles :
       \E optimizer \in {load_weights(file, artifact)} :
          IF optimizer.state = "raised"
          THEN /\ ret' = [op |-> "raise", call |-> "load_weights", file |-> file]
               /\ opt' = opt
          ELSE /\ ret' = [op |-> "load_weights", file |-> file,
                          w1 |-> optimizer.w1, w2 |-> optimizer.w2]
               /\ opt' = optimizer
    /\ UNCHANGED <<artifact, engine, calls, dataset>>

NextOpt ==
    \/ NewOptimizer \/ LoadWeights \/ TrainBatch \/ CrossValidate
    \/ OptimizeWithScipy \/ SaveWeights \/ LoadSaved

SpecOpt == InitOpt /\ [][NextOpt]_vars

(***************************************************************************)
(* SimulationAgent                                                         *)
(*                                                                         *)
(* BMI, minutes of activity and hours of sleep are floats in units of      *)
(* 1/One like the risks; risk_reduction_percent is in units of 1/One of a  *)
(* percent.                                                                *)
(***************************************************************************)
SimDefaultRisk == 5000

DefaultSleepHours == 8 * One

HighBmi == 25 * One

ActivityGuideline == 150 * One

SleepGuideline == 7 * One

WeightLossReduction == 1500

ActivityReduction == 1000

SleepReduction == 800

DietReduction == 1200

SmokingReduction == 1800

CombinedReduction == 3500

\* safe_float(value, default): a missing, empty or non-numeric value gives
\* the default
safe_float(value, default) == IF value.k = "num" THEN value.v ELSE default

\* the truth value Python gives a stored smoking field
Truthy(value) ==
    IF value.k = "bool" THEN value.v
    ELSE IF value.k = "str" THEN value.s # ""
    ELSE FALSE

\* a simulation helper that forgets the floor at zero
projected_unfloored(current_risk, risk_reduction) == FSub(current_risk, risk_reduction)

\* projected_risk = max(current_risk - risk_reduction, 0.0)
projected(current_risk, risk_reduction) ==
    PyMax(FSub(current_risk, risk_reduction), 0)

\* the dict every _simulate_* helper returns; the division by current_risk
\* raises ZeroDivisionError when it is 0
simulation(intervention, current_risk, risk_reduction) ==
    LET projected_risk == projected(current_risk, risk_reduction)
    IN IF current_risk = 0
       THEN [raised |-> TRUE, intervention |-> intervention]
       ELSE [raised |-> FALSE,
             intervention |-> intervention,
             current_risk |-> current_risk,
             projected_risk |-> projected_risk,
             risk_reduction_percent |->
                 LET ratio == FDiv(FSub(current_risk, projected_risk),
                                   current_risk)
                 IN IF IsNaN(ratio) THEN NaN ELSE ratio * 100]

simulate_weight_loss(current_risk, current_bmi) ==
    simulation("Weight Loss", current_risk, WeightLossReduction)

simulate_increased_activity(current_risk, current_activity) ==
    simulation("Increased Physical Activity", current_risk, ActivityReduction)

simulate_better_sleep(current_risk, current_sleep) ==
    simulation("Improved Sleep Quality", current_risk, SleepReduction)

simulate_healthy_diet(current_risk) ==
    simulation("Healthy Diet Adoption", current_risk, DietReduction)

simulate_quit_smoking(current_risk) ==
    simulation("Smoking Cessation", current_risk, SmokingReduction)

\* a combined scenario worth no more than the diet change alone
simulate_combined_changes_small(current_risk, lifestyle_data) ==
    simulation("Comprehensive Lifestyle Change", current_risk, DietReduction)

simulate_combined_changes(current_risk, lifestyle_data) ==
    simulation("Comprehensive Lifestyle Change", current_risk, CombinedReduction)

\* a weight-loss test that also fires at a BMI of exactly 25
bmi_is_high_inclusive(bmi) == bmi >= HighBmi

\* if bmi > 25
bmi_is_high(bmi) == bmi > HighBmi

RECURSIVE last_min_from(_, _, _)
\* a selection that lets a later simulation win a tie
last_min_from(simulations, i, best) ==
    IF i > Len(simulations) THEN best
    ELSE last_min_from(simulations, i + 1,
                       IF ~FGt(simulations[i].projected_risk, best.projected_risk)
                       THEN simulations[i] ELSE best)

RECURSIVE min_from(_, _, _)
\* min(simulations, key=projected_risk) continued from element i with best
\* the smallest so far: a later element replaces it only when strictly smaller
min_from(simulations, i, best) ==
    IF i > Len(simulations) THEN best
    ELSE min_from(simulations, i + 1,
                  IF FLt(simulations[i].projected_risk, best.projected_risk)
                  THEN simulations[i] ELSE best)

\* the simulations execute collects, in the order it appends them
generated_simulations(risk_score, lifestyle_data) ==
    LET bmi == safe_float(lifestyle_data.bmi, 0)
        physical_activity == safe_float(lifestyle_data.physical_activity, 0)
        sleep_hours == safe_float(lifestyle_data.sleep_hours, DefaultSleepHours)
    IN (IF bmi_is_high(bmi)
        THEN <<simulate_weight_loss(risk_score, bmi)>> ELSE <<>>)
       \o (IF physical_activity < ActivityGuideline
           THEN <<simulate_increased_activity(risk_score, physical_activity)>>
           ELSE <<>>)
       \o (IF sleep_hours < SleepGuideline
           THEN <<simulate_better_sleep(risk_score, sleep_hours)>> ELSE <<>>)
       \o <<simulate_healthy_diet(risk_score)>>
       \o (IF Truthy(lifestyle_data.smoking)
           THEN <<simulate_quit_smoking(risk_score)>> ELSE <<>>)
       \o <<simulate_combined_changes(risk_score, lifestyle_data)>>

\* SimulationAgent.execute(task): an exception in a helper is caught and
\* turned into the error result with no simulations
SimulationAgent_execute(task) ==
    LET risk_score == safe_float(task.risk_score, SimDefaultRisk)
        simulations == generated_simulations(risk_score, task.lifestyle_data)
    IN IF \E i \in 1..Len(simulations) : simulations[i].raised
       THEN [status |-> "error", simulations |-> <<>>]
       ELSE [status |-> "success",
             simulations |-> simulations,
             current_risk |-> risk_score,
             best_scenario |-> min_from(simulations, 2, simulations[1])]

(***************************************************************************)
(* The simulation endpoint: one execute call per request                   *)
(***************************************************************************)
SimRisks == {NaN, -1000, 0, 500, 1000, 1500, 1800, 2000, 5000, One}

RiskScores == {JMissing} \cup {JNum(r) : r \in SimRisks}

BmiValues == {JMissing, JStr, JNum(HighBmi), JNum(30 * One)}

ActivityValues == {JMissing, JNum(120 * One), JNum(ActivityGuideline)}

SleepValues == {JMissing, JNum(6 * One), JNum(SleepGuideline)}

SmokingValues == {[k |-> "missing"], [k |-> "bool", v |-> FALSE],
                  [k |-> "bool", v |-> TRUE], [k |-> "str", s |-> "no"],
                  [k |-> "str", s |-> ""]}

LifestyleData == [bmi : BmiValues, physical_activity : ActivityValues,
                  sleep_hours : SleepValues, smoking : SmokingValues]

SimTasks == [risk_score : RiskScores, lifestyle_data : LifestyleData]

InitSim ==
    /\ artifact = [kind |-> "absent", retinal_weight |-> JMissing,
                   lifestyle_weight |-> JMissing]
    /\ engine = [state |-> "unbuilt", method |-> "weighted_average",
                 use_optimized_weights |-> TRUE,
                 retinal_weight |-> DefaultWeight, lifestyle_weight |-> DefaultWeight]
    /\ ret = NoRet
    /\ opt = NoOpt
    /\ calls = 0
    /\ dataset = NoData

\* a request to the simulation endpoint; ret is the task and what came back
Simulate ==
    /\ ret = NoRet
    /\ \E task \in SimTasks :
          \E result \in {SimulationAgent_execute(task)} :
             ret' = [op |-> "simulate", task |-> task,
                     current_risk |-> safe_float(task.risk_score, SimDefaultRisk),
                     result |-> result]
    /\ UNCHANGED <<artifact, engine, opt, calls, dataset>>

\* the response is sent; the agent serves the next request
Respond ==
    /\ ret # NoRet
    /\ ret.op = "simulate"
    /\ ret' = NoRet
    /\ UNCHANGED <<artifact, engine, opt, calls, dataset>>

NextSim == Simulate \/ Respond

SpecSim == InitSim /\ [][NextSim]_vars

(***************************************************************************)
(* RiskScorer.assess called on its own                                     *)
(***************************************************************************)
\* the risk level and confidence of the assessment dict
RiskScorer_assess(fused_score, findings_nonempty, n_factors) ==
    [risk_level |-> get_risk_level(fused_score),
     confidence |-> calculate_confidence(fused_score, findings_nonempty,
                                         n_factors)]

NoModifiablePotential == 1000

PotentialCap == 8000

\* a result that leaves the summed importance uncapped
cap_potential_missing(potential) == potential

\* min(potential, 0.8)
cap_potential(potential) == PyMin(potential, PotentialCap)

RECURSIVE py_sum_importance(_, _, _)
\* sum(f.get('importance', 0.0) for f in modifiable_factors) from element i on
py_sum_importance(factors, i, acc) ==
    IF i > Len(factors) THEN acc
    ELSE py_sum_importance(factors, i + 1,
                           FAdd(acc, IF factors[i].importance.k = "missing"
                                     THEN 0 ELSE factors[i].importance.v))

\* RiskScorer.calculate_prevention_potential(lifestyle_factors)
calculate_prevention_potential(lifestyle_factors) ==
    LET modifiable_factors ==
            SelectSeq(lifestyle_factors, LAMBDA f : Truthy(f.modifiable))
    IN IF Len(lifestyle_factors) = 0 THEN 0
       ELSE IF Len(modifiable_factors) = 0 THEN NoModifiablePotential
       ELSE cap_potential(py_sum_importance(modifiable_factors, 1, 0))

\* a lifestyle factor: the 'modifiable' and 'importance' entries of its dict
FactorDicts ==
    [modifiable : {[k |-> "missing"], [k |-> "bool", v |-> FALSE],
                   [k |-> "bool", v |-> TRUE]},
     importance : {JMissing, JNum(1000), JNum(3000), JNum(5000)}]

RECURSIVE FactorLists(_)
\* the factor lists of length n
FactorLists(n) ==
    IF n = 0 THEN {<<>>}
    ELSE {Append(l, f) : l \in FactorLists(n - 1), f \in FactorDicts}

FusedScores == {NaN, -1000, 0, 2499, 2500, 2999, 3000, 3001, 3499, 3500, 3501,
                4500, 4999, 5000, 5500, 5501, 6500, 6999, 7000, 7500, 7501, One}

InitScorer ==
    /\ artifact = [kind |-> "absent", retinal_weight |-> JMissing,
                   lifestyle_weight |-> JMissing]
    /\ engine = [state |-> "unbuilt", method |-> "weighted_average",
                 use_optimized_weights |-> TRUE,
                 retinal_weight |-> DefaultWeight, lifestyle_weight |-> DefaultWeight]
    /\ ret = NoRet
    /\ opt = NoOpt
    /\ calls = 0
    /\ dataset = NoData

\* scorer.assess(fused_score, retinal_findings, lifestyle_factors)
Assess ==
    /\ ret = NoRet
    /\ \E fused_score \in FusedScores, findings_nonempty \in BOOLEAN,
          n_factors \in 0..MaxFactors :
          ret' = [op |-> "assess", fused_score |-> fused_score,
                  findings_nonempty |-> findings_nonempty,
                  n_factors |-> n_factors,
                  result |-> RiskScorer_assess(fused_score, findings_nonempty,
                                               n_factors)]
    /\ UNCHANGED <<artifact, engine, opt, calls, dataset>>

\* scorer.calculate_prevention_potential(lifestyle_factors)
PreventionPotential ==
    /\ ret = NoRet
    /\ \E n \in 0..MaxFactors :
          \E lifestyle_factors \in FactorLists(n) :
             ret' = [op |-> "prevention_potential",
                     lifestyle_factors |-> lifestyle_factors,
                     result |-> calculate_prevention_potential(lifestyle_factors)]
    /\ UNCHANGED <<artifact, engine, opt, calls, dataset>>

\* the caller takes the assessment
AssessReturn ==
    /\ ret # NoRet
    /\ ret.op \in {"assess", "prevention_potential"}
    /\ ret' = NoRet
    /\ UNCHANGED <<artifact, engine, opt, calls, dataset>>

NextScorer == Assess \/ PreventionPotential \/ AssessReturn

SpecScorer == InitScorer /\ [][NextScorer]_vars

(***************************************************************************)
(* Lifestyle calibration: at inference (LifestyleAgent._predict) and on    *)
(* the training arrays (train_fusion_weights.py)                           *)
(***************************************************************************)
MinVal == 4000

\* calibrate_lifestyle_predictions(lifestyle_preds), element by element
calibrate_lifestyle_predictions(lifestyle_preds) ==
    [i \in 1..Len(lifestyle_preds) |->
        IF IsNaN(lifestyle_preds[i]) THEN NaN
        ELSE np_clip(FDiv(FSub(lifestyle_preds[i], MinVal), One - MinVal),
                     0, One)]

\* the class-1 probabilities predict_proba can give, and values just outside
RawGrid == {(One \div 100) * k : k \in -20..120}

BatchValues == {-2000, 2000, MinVal, 7000, One, 12000}

RawBatches == {<<a>> : a \in BatchValues}
              \cup {<<a, b>> : a \in BatchValues, b \in BatchValues}

InitCalib ==
    /\ artifact = [kind |-> "absent", retinal_weight |-> JMissing,
                   lifestyle_weight |-> JMissing]
    /\ engine = [state |-> "unbuilt", method |-> "weighted_average",
                 use_optimized_weights |-> TRUE,
                 retinal_weight |-> DefaultWeight, lifestyle_weight |-> DefaultWeight]
    /\ ret = NoRet
    /\ opt = NoOpt
    /\ calls = 0
    /\ dataset = NoData

\* LifestyleAgent._predict: the model's raw probability and the risk score
\* stored in the prediction
Predict ==
    /\ ret = NoRet
    /\ \E raw \in RawGrid :
          ret' = [op |-> "predict", raw_probability |-> raw,
                  risk_score |-> calibrate_probability(raw)]
    /\ UNCHANGED <<artifact, engine, opt, calls, dataset>>

\* main() of the training script calibrating the lifestyle predictions
CalibrateBatch ==
    /\ ret = NoRet
    /\ \E lifestyle_preds \in RawBatches :
          ret' = [op |-> "calibrate_batch", lifestyle_preds |-> lifestyle_preds,
                  calibrated |-> calibrate_lifestyle_predictions(lifestyle_preds)]
    /\ UNCHANGED <<artifact, engine, opt, calls, dataset>>

\* the caller takes the calibrated value
CalibReturn ==
    /\ ret # NoRet
    /\ ret.op \in {"predict", "calibrate_batch"}
    /\ ret' = NoRet
    /\ UNCHANGED <<artifact, engine, opt, calls, dataset>>

NextCalib == Predict \/ CalibrateBatch \/ CalibReturn

SpecCalib == InitCalib /\ [][NextCalib]_vars

(***************************************************************************)
(* DiabetesOrchestrator                                                    *)
(*                                                                         *)
(* One run of execute is kept in ret: the submitted lifestyle data, the    *)
(* transformed data, the position of each of the five sub-agent calls      *)
(* ("idle", "running", "returned"), their results and the final result;    *)
(* first records which classifier call returned first.                     *)
(* asyncio.gather runs the two classifier calls as concurrent tasks; the   *)
(* model lets them return in either order.                                 *)
(***************************************************************************)
\* the helper safe_float of _transform_frontend_to_backend_data
transform_safe_float(val, default) == IF val.k = "num" THEN val.v ELSE default

\* the fields of the backend dict that the simulation agent reads
transform_frontend_to_backend_data(frontend_data) ==
    [bmi |-> JNum(transform_safe_float(frontend_data.bmi, 25 * One)),
     physical_activity |->
         JNum(transform_safe_float(frontend_data.physical_activity, 30 * One)),
     sleep_hours |-> JNum(transform_safe_float(frontend_data.sleep_hours, 7 * One)),
     smoking |-> IF frontend_data.smoking.k = "missing"
                 THEN [k |-> "str", s |-> "no"]
                 ELSE frontend_data.smoking]

\* lifestyle_data that json.loads did not turn into a dict
NotADict == [k |-> "list"]

\* the submitted lifestyle_data
FrontendData ==
    [bmi : {JMissing, JNum(30 * One)},
     physical_activity : {JMissing, JNum(ActivityGuideline)},
     sleep_hours : {JMissing, JNum(6 * One)},
     smoking : {[k |-> "missing"], [k |-> "str", s |-> "no"],
                [k |-> "str", s |-> "yes"], [k |-> "bool", v |-> FALSE],
                [k |-> "bool", v |-> TRUE]}]

\* a sub-agent result that has not been returned yet
Pending == [keys |-> {}, status |-> "pending"]

\* a wait that ends when the first of the two classifier calls returns
gathered_first(run) == run.retinal = "returned" \/ run.lifestyle = "returned"

\* await asyncio.gather(retinal_task, lifestyle_task) has returned
gathered(run) == run.retinal = "returned" /\ run.lifestyle = "returned"

\* an except branch that reports a zero risk
fusion_error_zero ==
    [status |-> "error", risk_score |-> 0, risk_level |-> "unknown"]

\* the dict of FusionAgent.execute's except branch
fusion_error_result ==
    [status |-> "error", risk_score |-> NeutralRisk, risk_level |-> "unknown"]

\* FusionAgent.execute with its try/except; raised says that a statement of
\* the try body raised
FusionAgent_try(ensemble, retinal_result, lifestyle_result, raised) ==
    IF raised THEN fusion_error_result
    ELSE FusionAgent_execute(ensemble, retinal_result, lifestyle_result)

\* LLMAgent.execute as the orchestrator calls it: risk_factors is
\* fusion_result.get('risk_factors'), None when the fusion result is the error
\* dict, and build_advice_prompt iterates over it; a failed or empty LLM
\* response is replaced by the default recommendations
LLMAgent_execute(fusion_result) ==
    IF fusion_result.status # "success"
    THEN [status |-> "error", recommendations |-> "empty"]
    ELSE [status |-> "success", recommendations |-> "nonempty"]

\* x * (100 if x <= 1 else 1)
to_percentage(x) == IF IsNaN(x) THEN NaN ELSE IF x <= One THEN x * 100 ELSE x

\* final_result of execute
compile_final(run) ==
    [status |-> "success",
     overall_risk_score |-> to_percentage(run.fusion_result.risk_score),
     risk_level |-> run.fusion_result.risk_level,
     recommendations |-> run.advice_result.recommendations,
     what_if_simulations |-> run.simulation_result.simulations]

\* the dict of execute's except branch
orchestration_failed == [status |-> "error"]

NoFinal == [status |-> "none"]

InitOrch ==
    /\ artifact = [kind |-> "absent", retinal_weight |-> JMissing,
                   lifestyle_weight |-> JMissing]
    /\ engine = EnsembleFusion_init("weighted_average", TRUE, artifact)
    /\ ret = NoRet
    /\ opt = NoOpt
    /\ calls = 0
    /\ dataset = NoData

\* execute is called: the transform, then both classifier coroutines are
\* handed to asyncio.gather; lifestyle_data that is not a dict makes the
\* transform raise and execute return its error dict
OrchStart ==
    /\ ret = NoRet
    /\ \E frontend_data \in FrontendData \cup {NotADict} :
          ret' = [op |-> "orchestrate",
                  frontend |-> frontend_data,
                  lifestyle_data |->
                      IF frontend_data = NotADict THEN NotADict
                      ELSE transform_frontend_to_backend_data(frontend_data),
                  retinal |-> IF frontend_data = NotADict THEN "idle" ELSE "running",
                  lifestyle |-> IF frontend_data = NotADict THEN "idle" ELSE "running",
                  first |-> "none",
                  fusion |-> "idle", advice |-> "idle", simulation |-> "idle",
                  retinal_result |-> Pending, lifestyle_result |-> Pending,
                  fusion_result |-> Pending, advice_result |-> Pending,
                  simulation_result |-> Pending,
                  final |-> IF frontend_data = NotADict
                            THEN orchestration_failed ELSE NoFinal]
    /\ UNCHANGED <<artifact, engine, opt, calls, dataset>>

\* the retinal task of the gather finishes
RetinalReturns ==
    /\ ret.op = "orchestrate"
    /\ ret.retinal = "running"
    /\ \E retinal_result \in {RetinalAgent_execute("error", 0, 0),
                             RetinalAgent_execute("fallback", 0, 0),
                             RetinalAgent_execute("model", 6000, 9000)} :
          ret' = [ret EXCEPT !.retinal = "returned",
                             !.retinal_result = retinal_result,
                             !.first = IF @ = "none" THEN "retinal" ELSE @]
    /\ UNCHANGED <<artifact, engine, opt, calls, dataset>>

\* the lifestyle task of the gather finishes
LifestyleReturns ==
    /\ ret.op = "orchestrate"
    /\ ret.lifestyle = "running"
    /\ \E lifestyle_result \in {LifestyleAgent_execute("error", 0, 0),
                               LifestyleAgent_execute("model", 7000, MaxFactors)} :
          ret' = [ret EXCEPT !.lifestyle = "returned",
                             !.lifestyle_result = lifestyle_result,
                             !.first = IF @ = "none" THEN "lifestyle" ELSE @]
    /\ UNCHANGED <<artifact, engine, opt, calls, dataset>>

\* step 2: await self.fusion_agent.execute(...); the call does not await
\* anything itself, so it starts and returns in one step
FusionStep ==
    /\ ret.op = "orchestrate"
    /\ gathered(ret)
    /\ ret.fusion = "idle"
    /\ \E raised \in BOOLEAN :
          \E fusion_result \in {FusionAgent_try(engine, ret.retinal_result,
                                                ret.lifestyle_result, raised)} :
             ret' = [ret EXCEPT !.fusion = "returned",
                                !.fusion_result = fusion_result]
    /\ UNCHANGED <<artifact, engine, opt, calls, dataset>>

\* step 3 begins: self.llm_agent.execute(...) is called; it builds the prompt
\* and, unless that raised, awaits the LLM
AdviceStart ==
    /\ ret.op = "orchestrate"
    /\ ret.fusion = "returned"
    /\ ret.advice = "idle"
    /\ ret' = IF ret.fusion_result.status # "success"
              THEN [ret EXCEPT !.advice = "returned",
                               !.advice_result = LLMAgent_execute(ret.fusion_result)]
              ELSE [ret EXCEPT !.advice = "running"]
    /\ UNCHANGED <<artifact, engine, opt, calls, dataset>>

\* the LLM call comes back (with a response or an exception) and
\* llm_agent.execute returns
AdviceReturns ==
    /\ ret.op = "orchestrate"
    /\ ret.advice = "running"
    /\ ret' = [ret EXCEPT !.advice = "returned",
                          !.advice_result = LLMAgent_execute(ret.fusion_result)]
    /\ UNCHANGED <<artifact, engine, opt, calls, dataset>>

\* step 4: await self.simulation_agent.execute(...)
SimulationStep ==
    /\ ret.op = "orchestrate"
    /\ ret.advice = "returned"
    /\ ret.simulation = "idle"
    /\ \E result \in {SimulationAgent_execute(
                         [risk_score |-> JNum(ret.fusion_result.risk_score),
                          lifestyle_data |-> ret.lifestyle_data])} :
          ret' = [ret EXCEPT !.simulation = "returned",
                             !.simulation_result = result]
    /\ UNCHANGED <<artifact, engine, opt, calls, dataset>>

\* final_result is compiled and returned
Compile ==
    /\ ret.op = "orchestrate"
    /\ ret.simulation = "returned"
    /\ ret.final = NoFinal
    /\ ret' = [ret EXCEPT !.final = compile_final(ret)]
    /\ UNCHANGED <<artifact, engine, opt, calls, dataset>>

\* the route sends the response; the orchestrator serves the next request
OrchRespond ==
    /\ ret.op = "orchestrate"
    /\ ret.final # NoFinal
    /\ ret' = NoRet
    /\ UNCHANGED <<artifact, engine, opt, calls, dataset>>

NextOrch ==
    \/ OrchStart \/ RetinalReturns \/ LifestyleReturns \/ FusionStep
    \/ AdviceStart \/ AdviceReturns \/ SimulationStep \/ Compile \/ OrchRespond

SpecOrch == InitOrch /\ [][NextOrch]_vars

\* once fusion has returned, the rest of execute up to its return statement
\* is sequential code of one coroutine; with a failed fusion the advice call
\* returns from its own except branch without awaiting the LLM
SpecOrchLive ==
    InitOrch /\ [][NextOrch]_vars
    /\ WF_vars(AdviceStart) /\ WF_vars(SimulationStep) /\ WF_vars(Compile)

(***************************************************************************)
(* Properties of the fusion engine and the fusion agent                    *)
(***************************************************************************)
InUnit(x) == ~IsNaN(x) /\ 0 <= x /\ x <= One

ClampUnit(x) == IF x < 0 THEN 0 ELSE IF x > One THEN One ELSE x

\* C1: for risks and confidences in [0,1], every loaded weight pair and every
\* method, fuse returns a value in [0,1].
C1_FuseOutputInUnit ==
    (/\ ret.op = "fuse"
     /\ InUnit(ret.retinal_risk) /\ InUnit(ret.lifestyle_risk)
     /\ InUnit(ret.retinal_confidence) /\ InUnit(ret.lifestyle_confidence))
    => InUnit(ret.out)

\* a fuse call whose weighted sum (1.5 * 1.0) leaves [0,1] and is clamped to 1
C1_Witness ==
    /\ ret.op = "fuse"
    /\ engine.method = "weighted_average"
    /\ engine.retinal_weight = 15000 /\ engine.lifestyle_weight = -5000
    /\ ret.retinal_risk = One /\ ret.lifestyle_risk = 0
    /\ ret.out = One

\* C2: after construction, whatever the artifact holds, the engine's weights
\* sum to 1 within 1e-3.
C2_WeightsSumToOne ==
    engine.state = "built"
    => Abs(engine.retinal_weight + engine.lifestyle_weight - One) < SumTolerance

\* C3: after construction, for every numeric artifact content, both weights
\* lie in [0,1].
C3_WeightsInUnit ==
    engine.state = "built"
    => InUnit(engine.retinal_weight) /\ InUnit(engine.lifestyle_weight)

\* C4: with method weighted_average and optimized weights active, fuse returns
\* clamp(w_retinal * retinal_risk + w_lifestyle * lifestyle_risk) for the
\* loaded weights, whatever the two confidences are.
C4_WeightedAverageIgnoresConfidence ==
    (/\ ret.op = "fuse"
     /\ engine.method = "weighted_average"
     /\ engine.use_optimized_weights)
    => /\ ret.out = clamp01(FAdd(FMul(engine.retinal_weight, ret.retinal_risk),
                                 FMul(engine.lifestyle_weight, ret.lifestyle_risk)))
       /\ \A rc \in Confidences, lc \in Confidences :
             fuse(engine, ret.retinal_risk, ret.lifestyle_risk, rc, lc) = ret.out

\* the spec's example, weights {0.7, 0.3}, risks 0.8 and 0.4, fused 0.68, called
\* with unequal confidences
C4_Witness ==
    /\ ret.op = "fuse"
    /\ engine.method = "weighted_average"
    /\ engine.use_optimized_weights
    /\ engine.retinal_weight = 7000 /\ engine.lifestyle_weight = 3000
    /\ ret.retinal_risk = 8000 /\ ret.lifestyle_risk = 4000
    /\ ret.retinal_confidence = 0 /\ ret.lifestyle_confidence = One
    /\ ret.out = 6800

\* the fusion computation of the last fuse call produced no number
NumericalFailure ==
    LET raw == fuse_raw(engine, ret.retinal_risk, ret.lifestyle_risk,
                        ret.retinal_confidence, ret.lifestyle_confidence)
    IN raw.raised \/ IsNaN(raw.v)

\* C5: fuse never raises and never returns NaN; on a numerical failure it
\* returns the unweighted arithmetic mean of the two risks.
C5_FailSoftMean ==
    ret.op = "fuse"
    => /\ ~IsNaN(ret.out)
       /\ NumericalFailure
          => ret.out = simple_average(ret.retinal_risk, ret.lifestyle_risk)

\* C6: risks are clamped to [0,1] before use: fusing out-of-range risks gives
\* what fusing the clamped risks gives, under every method.
C6_InputsClampedBeforeUse ==
    (ret.op = "fuse" /\ ~IsNaN(ret.retinal_risk) /\ ~IsNaN(ret.lifestyle_risk))
    => ret.out = fuse(engine, ClampUnit(ret.retinal_risk),
                      ClampUnit(ret.lifestyle_risk),
                      ret.retinal_confidence, ret.lifestyle_confidence)

\* C7: a modality whose agent returned status 'error' enters fusion as the
\* neutral default risk 0.5, confidence 0.5, and fusion still succeeds.
C7_NeutralDefaultOnModalityError ==
    ret.op = "fusion_agent"
    => /\ ret.result.status = "success"
       /\ ret.retinal_result.status = "error"
          => /\ ret.fuse_args.retinal_risk = NeutralRisk
             /\ ret.fuse_args.retinal_confidence = NeutralConfidence
       /\ ret.lifestyle_result.status = "error"
          => /\ ret.fuse_args.lifestyle_risk = NeutralRisk
             /\ ret.fuse_args.lifestyle_confidence = NeutralConfidence

\* the artifact is absent, unparseable, lacks a weight key, holds a non-numeric
\* weight, or holds weights summing to 0
Malformed(art) ==
    \/ art.kind # "object"
    \/ art.retinal_weight.k # "num"
    \/ art.lifestyle_weight.k # "num"
    \/ art.retinal_weight.v + art.lifestyle_weight.v = 0

\* C8: with an absent or malformed artifact, constructing the engine does not
\* raise and leaves exactly the default weights 0.5 / 0.5.
C8_MalformedArtifactGivesDefaults ==
    (engine.state # "unbuilt" /\ Malformed(artifact))
    => /\ engine.state = "built"
       /\ engine.retinal_weight = DefaultWeight
       /\ engine.lifestyle_weight = DefaultWeight

(***************************************************************************)
(* Properties of the weight optimizer                                      *)
(***************************************************************************)
\* C9: train_batch returns as best_loss the minimum of the losses evaluated
\* during the run, and as best_weights the weight pair at which that minimum
\* loss was evaluated (not the weights the following update produced).
C9_BestWeightsWhereMinLossEvaluated ==
    [][(calls' = calls + 1 /\ ret'.op = "train_batch" /\ ret'.epochs > 0)
       => LET before == Len(opt.training_history)
              run == SubSeq(opt'.training_history, before + 1,
                            Len(opt'.training_history))
              evaluated_at(e) == IF e = 1 THEN opt.w1 ELSE run[e - 1].w1
              losses == {run[e].loss : e \in 1..Len(run)}
              min_loss == CHOOSE m \in losses : \A x \in losses : m <= x
          IN /\ ret'.result.best_loss = min_loss
             /\ \E e \in 1..Len(run) :
                   /\ run[e].loss = min_loss
                   /\ ret'.result.best_weights[1] = evaluated_at(e)]_vars

\* what train_batch returns on a fresh optimizer started at (0.7, 0.3) and
\* given one fold alone
FreshFoldResult(fold) ==
    train_batch(FusionWeightOptimizer_init(<<JNum(CVInitialW1), JNum(CVInitialW2)>>,
                                           opt.learning_rate, opt.regularization,
                                           artifact),
                fold, CVEpochs).result

\* C10: cross_validate_weights optimizes each fold independently: the weights
\* and loss recorded for fold i are those a fresh optimizer started at
\* (0.7, 0.3) returns on fold i alone.
C10_FoldsOptimizedIndependently ==
    ret.op = "cross_validate"
    => LET n == Len(ret.data_splits)
           fresh == [i \in 1..n |-> FreshFoldResult(ret.data_splits[i])]
       IN /\ \A i \in 1..n : ret.result.all_weights[i] = fresh[i].best_weights
          /\ ret.result.average_loss = np_mean([i \in 1..n |-> fresh[i].best_loss])

\* C11: after every epoch of train_batch, for any data and any starting
\* weights, w1 lies in [0.01, 0.99] and w2 equals 1 - w1 exactly.
C11_WeightsConstrainedAfterEveryEpoch ==
    opt.state = "live"
    => \A e \in 1..Len(opt.training_history) :
          /\ ClipLow <= opt.training_history[e].w1
          /\ opt.training_history[e].w1 <= ClipHigh
          /\ opt.training_history[e].w2 = One - opt.training_history[e].w1

\* an epoch whose gradient step overshot 0.99 and was clipped back to it
C11_Witness ==
    /\ opt.state = "live"
    /\ \E e \in 2..Len(opt.training_history) :
          /\ opt.training_history[e - 1].w1
                - FMul(opt.learning_rate, opt.training_history[e].gradient) > ClipHigh
          /\ opt.training_history[e].w1 = ClipHigh
          /\ opt.training_history[e].w2 = One - ClipHigh

\* C12: when y_true, retinal_preds and lifestyle_preds do not all have the
\* same length, train_batch and optimize_with_scipy signal an error and never
\* compute a result from the mismatched arrays: a call that ran an epoch, or
\* a search, and returned was given arrays of one length.
C12_MismatchedLengthsAreSignalled ==
    (\/ ret.op = "train_batch" /\ ret.epochs > 0
     \/ ret.op = "optimize_with_scipy" /\ ret.result.success)
    => SameLength(ret.data)

\* the file load_weights is pointed at is missing, is not parseable, or lacks
\* a weight key
Unusable(file) ==
    \/ file.kind # "object"
    \/ file.retinal_weight.k = "missing"
    \/ file.lifestyle_weight.k = "missing"

\* C13: load_weights never raises: on a missing or unparseable file, or one
\* lacking the weight keys, it returns an optimizer with weights 0.5 / 0.5.
C13_LoadWeightsFallsBackToDefaults ==
    (/\ ret.op \in {"load_weights", "raise"}
     /\ "file" \in DOMAIN ret
     /\ Unusable(ret.file))
    => /\ ret.op = "load_weights"
       /\ ret.w1 = InitDefaultWeight
       /\ ret.w2 = InitDefaultWeight

\* C14: on data whose y_true equals retinal_preds exactly while lifestyle_preds
\* differs, train_batch started from equal weights with the default learning
\* rate reaches w1 > 0.9 within 200 epochs.
C14_ConvergesToRetinal ==
    [][(/\ calls' = calls + 1
        /\ ret'.op = "train_batch"
        /\ ret'.epochs = ConvergenceEpochs
        /\ ret'.data.y_true = ret'.data.retinal_preds
        /\ ret'.data.lifestyle_preds # ret'.data.y_true
        /\ opt.w1 = InitDefaultWeight /\ opt.w2 = InitDefaultWeight
        /\ opt.learning_rate = DefaultLearningRate
        /\ opt.training_history = <<>>)
       => \E e \in 1..Len(opt'.training_history) :
             opt'.training_history[e].w1 > (9 * One) \div 10]_vars


(***************************************************************************)
(* Properties of the simulation agent                                      *)
(***************************************************************************)
\* the reduction the source fixes for each intervention
fixed_reduction(intervention) ==
    CASE intervention = "Weight Loss" -> WeightLossReduction
      [] intervention = "Increased Physical Activity" -> ActivityReduction
      [] intervention = "Improved Sleep Quality" -> SleepReduction
      [] intervention = "Healthy Diet Adoption" -> DietReduction
      [] intervention = "Smoking Cessation" -> SmokingReduction
      [] intervention = "Comprehensive Lifestyle Change" -> CombinedReduction

Simulated == ret.op = "simulate" /\ ret.result.status = "success"

C16_ZeroRiskGivesZeroPercent ==
    (ret.op = "simulate" /\ ret.current_risk = 0) =>
        /\ ret.result.status = "success"
        /\ Len(ret.result.simulations) > 0
        /\ \A i \in 1..Len(ret.result.simulations) :
              ret.result.simulations[i].risk_reduction_percent = 0

\* C17: best_scenario has the minimum projected_risk of the generated
\* simulations, and among those with that minimum it is the first generated
C17_BestScenarioIsFirstMinimum ==
    (Simulated /\ ~IsNaN(ret.current_risk)) =>
        \E i \in 1..Len(ret.result.simulations) :
            /\ ret.result.best_scenario = ret.result.simulations[i]
            /\ \A j \in 1..Len(ret.result.simulations) :
                  /\ ret.result.simulations[i].projected_risk
                        <= ret.result.simulations[j].projected_risk
                  /\ (j < i => ret.result.simulations[j].projected_risk
                                 > ret.result.simulations[i].projected_risk)

\* a tie: several simulations are floored at 0 and the first of them is
\* chosen although the combined scenario is just as low
C17_Witness ==
    /\ Simulated
    /\ ret.current_risk = 1000
    /\ Len(ret.result.simulations) >= 3
    /\ ret.result.best_scenario = ret.result.simulations[1]
    /\ \A j \in 1..Len(ret.result.simulations) :
          ret.result.simulations[j].projected_risk = 0

\* the interventions execute is to generate for a task, in the fixed order
expected_interventions(task) ==
    LET d == task.lifestyle_data
        num(value, default) == IF value.k = "num" THEN value.v ELSE default
        smoker == \/ d.smoking.k = "bool" /\ d.smoking.v
                  \/ d.smoking.k = "str" /\ d.smoking.s # ""
    IN (IF num(d.bmi, 0) > 25 * One THEN <<"Weight Loss">> ELSE <<>>)
       \o (IF num(d.physical_activity, 0) < 150 * One
           THEN <<"Increased Physical Activity">> ELSE <<>>)
       \o (IF num(d.sleep_hours, 8 * One) < 7 * One
           THEN <<"Improved Sleep Quality">> ELSE <<>>)
       \o <<"Healthy Diet Adoption">>
       \o (IF smoker THEN <<"Smoking Cessation">> ELSE <<>>)
       \o <<"Comprehensive Lifestyle Change">>

\* C18: Weight Loss is generated exactly when BMI > 25, Increased Physical
\* Activity exactly when activity < 150, Improved Sleep Quality exactly when
\* sleep < 7, Smoking Cessation exactly when the smoking value is truthy,
\* Healthy Diet and the combined scenario always, in that fixed order
C18_InterventionsByCondition ==
    Simulated =>
        /\ Len(ret.result.simulations) = Len(expected_interventions(ret.task))
        /\ \A i \in 1..Len(ret.result.simulations) :
              ret.result.simulations[i].intervention
                  = expected_interventions(ret.task)[i]

\* the boundary values: a BMI of exactly 25, 150 minutes and 7 hours give
\* none of the three conditional simulations, and a truthy smoking value
\* gives Smoking Cessation between diet and the combined scenario
C18_Witness ==
    /\ Simulated
    /\ ret.task.lifestyle_data.bmi = JNum(HighBmi)
    /\ ret.task.lifestyle_data.physical_activity = JNum(ActivityGuideline)
    /\ ret.task.lifestyle_data.sleep_hours = JNum(SleepGuideline)
    /\ Truthy(ret.task.lifestyle_data.smoking)
    /\ Len(ret.result.simulations) = 3
    /\ ret.result.simulations[2].intervention = "Smoking Cessation"


(***************************************************************************)
(* Properties of the risk scorer                                           *)
(***************************************************************************)
\* C19: a score in [0, 1] is low in [0, 0.3), moderate in [0.3, 0.5), high
\* in [0.5, 0.7) and very_high in [0.7, 1.0]; a score of exactly 0.3, 0.5
\* or 0.7 is in the upper category
C19_RiskLevelHalfOpenIntervals ==
    (ret.op = "assess" /\ 0 <= ret.fused_score /\ ret.fused_score <= One) =>
        /\ (ret.result.risk_level = "low")
              = (ret.fused_score < 3 * (One \div 10))
        /\ (ret.result.risk_level = "moderate")
              = (3 * (One \div 10) <= ret.fused_score
                   /\ ret.fused_score < 5 * (One \div 10))
        /\ (ret.result.risk_level = "high")
              = (5 * (One \div 10) <= ret.fused_score
                   /\ ret.fused_score < 7 * (One \div 10))
        /\ (ret.result.risk_level = "very_high")
              = (7 * (One \div 10) <= ret.fused_score)

\* a score of exactly 0.3 is moderate
C19_Witness ==
    /\ ret.op = "assess"
    /\ ret.fused_score = 3 * (One \div 10)
    /\ ret.result.risk_level = "moderate"

\* C20: the confidence is 0.75, plus 0.10 with non-empty retinal findings,
\* plus 0.10 with at least 3 lifestyle factors, minus 0.10 when the score
\* is at a distance of at most 0.05 from 0.3, 0.5 or 0.7, clamped to
\* [0.5, 0.95]
C20_ConfidenceFormula ==
    (ret.op = "assess" /\ 0 <= ret.fused_score /\ ret.fused_score <= One) =>
        LET within == \E t \in {3 * (One \div 10), 5 * (One \div 10),
                                7 * (One \div 10)} :
                         /\ ret.fused_score - t <= 5 * (One \div 100)
                         /\ t - ret.fused_score <= 5 * (One \div 100)
            sum == 75 * (One \div 100)
                   + (IF ret.findings_nonempty THEN One \div 10 ELSE 0)
                   + (IF ret.n_factors >= 3 THEN One \div 10 ELSE 0)
                   - (IF within THEN One \div 10 ELSE 0)
            floored == IF sum < 5 * (One \div 10) THEN 5 * (One \div 10) ELSE sum
        IN ret.result.confidence
              = (IF floored > 95 * (One \div 100) THEN 95 * (One \div 100)
                 ELSE floored)


(***************************************************************************)
(* Properties of the lifestyle calibration                                 *)
(***************************************************************************)
\* the calibration the design describes, on a real number
calibrated_value(raw) ==
    IF raw <= 4 * (One \div 10) THEN 0
    ELSE IF raw >= One THEN One
    ELSE RoundDiv((raw - 4 * (One \div 10)) * One, 6 * (One \div 10))

\* C23: a raw probability of at most 0.4 is calibrated to 0, one of at least
\* 1.0 to 1, one in between to (raw - 0.4) / 0.6, and the result is in
\* [0, 1]; at inference and on the training arrays alike
C23_CalibrationPiecewiseLinear ==
    /\ ret.op = "predict" =>
          /\ ret.risk_score = calibrated_value(ret.raw_probability)
          /\ 0 <= ret.risk_score /\ ret.risk_score <= One
    /\ ret.op = "calibrate_batch" =>
          \A i \in 1..Len(ret.lifestyle_preds) :
             /\ ret.calibrated[i] = calibrated_value(ret.lifestyle_preds[i])
             /\ 0 <= ret.calibrated[i] /\ ret.calibrated[i] <= One

\* a raw probability of 0.7 is calibrated to 0.5
C23_Witness ==
    /\ ret.op = "predict"
    /\ ret.raw_probability = 7 * (One \div 10)
    /\ ret.risk_score = 5 * (One \div 10)


(***************************************************************************)
(* Properties of the prevention potential                                  *)
(***************************************************************************)
\* the positions of the factors flagged modifiable
ModifiableAt(factors) ==
    {i \in 1..Len(factors) :
        factors[i].modifiable.k = "bool" /\ factors[i].modifiable.v}

RECURSIVE ImportanceOver(_, _)
\* the summed importance of the factors at the positions in S
ImportanceOver(factors, S) ==
    IF S = {} THEN 0
    ELSE LET i == CHOOSE j \in S : TRUE
         IN (IF factors[i].importance.k = "num"
             THEN factors[i].importance.v ELSE 0)
            + ImportanceOver(factors, S \ {i})

\* C24: the prevention potential is 0.0 for an empty factor list, 0.1 when
\* no factor is modifiable, and otherwise the summed importance of the
\* modifiable factors capped at 0.8
C24_PreventionPotential ==
    ret.op = "prevention_potential" =>
        LET factors == ret.lifestyle_factors
            total == ImportanceOver(factors, ModifiableAt(factors))
        IN ret.result =
              (IF Len(factors) = 0 THEN 0
               ELSE IF ModifiableAt(factors) = {} THEN One \div 10
               ELSE IF total > 8 * (One \div 10) THEN 8 * (One \div 10)
               ELSE total)

\* two modifiable factors of importance 0.5 each: the sum 1.0 is capped
C24_Witness ==
    /\ ret.op = "prevention_potential"
    /\ Len(ret.lifestyle_factors) = 2
    /\ \A i \in 1..2 :
          /\ ret.lifestyle_factors[i].modifiable = [k |-> "bool", v |-> TRUE]
          /\ ret.lifestyle_factors[i].importance = JNum(5 * (One \div 10))
    /\ ret.result = 8 * (One \div 10)


(***************************************************************************)
(* Properties of saving and loading the weights                            *)
(***************************************************************************)
\* C25: loading the file an optimizer has just saved gives an optimizer with
\* the same w1, w2 and best_loss, whose training history is the last 20
\* entries of the saved optimizer's history in their order
C25_SaveLoadRoundTrip ==
    (ret.op \in {"load_saved", "raise"} /\ "saved" \in DOMAIN ret) =>
        /\ ret.op = "load_saved"
        /\ opt.w1 = ret.saved.w1
        /\ opt.w2 = ret.saved.w2
        /\ opt.best_loss = ret.saved.best_loss
        /\ LET n == Len(ret.saved.training_history)
               first == IF n > 20 THEN n - 20 ELSE 0
           IN /\ Len(opt.training_history) = n - first
              /\ \A i \in 1..(n - first) :
                    opt.training_history[i] = ret.saved.training_history[first + i]

\* an optimizer with more than 20 epochs of history and a finite best loss
\* was saved and loaded
C25_Witness ==
    /\ ret.op = "load_saved"
    /\ Len(ret.saved.training_history) > 20
    /\ Len(opt.training_history) = 20
    /\ opt.training_history[20]
          = ret.saved.training_history[Len(ret.saved.training_history)]
    /\ opt.best_loss # Inf
    /\ opt.w1 # InitDefaultWeight


(***************************************************************************)
(* Properties of the confidence blend                                      *)
(***************************************************************************)
\* C26: with optimized weights disabled and confidences in [0, 1], the
\* weights weighted_average multiplies the risks by sum to 1 (within 1e-3)
\* and each lies in [0, 1], also when both confidences are 0
C26_FallbackWeightsNormalised ==
    (/\ ret.op = "fuse"
     /\ engine.method = "weighted_average"
     /\ ~engine.use_optimized_weights
     /\ 0 <= ret.retinal_confidence /\ ret.retinal_confidence <= One
     /\ 0 <= ret.lifestyle_confidence /\ ret.lifestyle_confidence <= One) =>
        LET w == effective_weights(engine, ret.retinal_confidence,
                                   ret.lifestyle_confidence)
        IN /\ ~w.raised
           /\ Abs(w.r + w.l - One) < One \div 1000
           /\ 0 <= w.r /\ w.r <= One
           /\ 0 <= w.l /\ w.l <= One


(***************************************************************************)
(* Properties of the optimizer's weights                                   *)
(***************************************************************************)
\* a weight pair that sums to 1 within 1e-3 with its first weight in [0, 1]
ValidPair(w1, w2) ==
    /\ ~IsNaN(w1) /\ ~IsNaN(w2)
    /\ Abs(w1 + w2 - One) < One \div 1000
    /\ 0 <= w1 /\ w1 <= One

\* the weight pairs a returned dict carries
ReturnedPairs(r) ==
    IF r.op = "train_batch"
    THEN {r.result.best_weights, r.result.final_weights}
    ELSE IF r.op = "optimize_with_scipy"
    THEN {<<r.result.optimal_w1, r.result.optimal_w2>>}
    ELSE IF r.op = "cross_validate"
    THEN {r.result.average_weights}
    ELSE {}

\* C27: every operation on an optimizer whose current and best weights sum
\* to 1 (within 1e-3) with w1 in [0, 1] leaves current weights of that kind
\* and returns only weight pairs of that kind
C27_OptimizerWeightsStayValid ==
    [][(/\ opt.state = "live"
        /\ ValidPair(opt.w1, opt.w2)
        /\ ValidPair(opt.best_weights[1], opt.best_weights[2]))
       => (/\ opt'.state = "live"
           /\ ValidPair(opt'.w1, opt'.w2)
           /\ \A p \in ReturnedPairs(ret') : ValidPair(p[1], p[2]))]_vars


C29_BestScenarioIsCombinedReduction ==
    (Simulated /\ ret.current_risk > 0) =>
        /\ 2 <= Len(ret.result.simulations)
        /\ Len(ret.result.simulations) <= 6
        /\ ret.result.best_scenario.projected_risk
              = (IF ret.current_risk > 35 * (One \div 100)
                 THEN ret.current_risk - 35 * (One \div 100) ELSE 0)
        /\ (ret.current_risk > 18 * (One \div 100) =>
               ret.result.best_scenario.intervention
                  = "Comprehensive Lifestyle Change")

\* a smoker at a current risk of 0.2 with all six simulations: smoking
\* cessation leaves 0.02 and the combined scenario, floored at 0, is best
C29_Witness ==
    /\ Simulated
    /\ ret.current_risk = 2 * (One \div 10)
    /\ Len(ret.result.simulations) = 6
    /\ ret.result.simulations[5].projected_risk = 2 * (One \div 100)
    /\ ret.result.best_scenario = ret.result.simulations[6]
    /\ ret.result.best_scenario.projected_risk = 0

(***************************************************************************)
(* Properties of the orchestrator                                          *)
(***************************************************************************)
\* C21: the orchestrator starts fusion only after both the retinal and the
\* lifestyle classifier call have returned, in whichever order the two
\* finish, and starts advice generation and simulation only after fusion has
\* returned.
C21_FusionAfterBothClassifiers ==
    ret.op = "orchestrate" =>
        /\ ret.fusion # "idle" =>
              /\ ret.retinal = "returned" /\ ret.lifestyle = "returned"
              /\ ret.retinal_result # Pending /\ ret.lifestyle_result # Pending
        /\ ret.advice # "idle" => ret.fusion = "returned"
        /\ ret.simulation # "idle" => ret.fusion = "returned"

\* a run in which the lifestyle call returned before the retinal call and
\* fusion, advice and simulation have all run
C21_Witness ==
    /\ ret.op = "orchestrate"
    /\ ret.first = "lifestyle"
    /\ ret.fusion = "returned"
    /\ ret.advice = "returned"
    /\ ret.simulation = "returned"

\* the fusion step of the run in ret raised inside FusionAgent.execute
FusionFailed ==
    /\ ret.op = "orchestrate"
    /\ ret.fusion = "returned"
    /\ ret.fusion_result.status = "error"

\* C22: when an exception is raised inside FusionAgent.execute, the fusion
\* result carries risk_score 0.5 and risk_level 'unknown', and the
\* orchestrator still runs advice generation and simulation and returns an
\* assessment (status 'success'), not its error result.
C22_FusionFailureDegrades ==
    /\ [](FusionFailed =>
            /\ ret.fusion_result.risk_score = NeutralRisk
            /\ ret.fusion_result.risk_level = "unknown"
            /\ ret.final # NoFinal =>
                  /\ ret.final.status = "success"
                  /\ ret.final.risk_level = "unknown"
                  /\ ret.advice = "returned"
                  /\ ret.simulation = "returned"
                  /\ ret.simulation_result.status = "success"
                  /\ ret.final.what_if_simulations # <<>>)
    /\ (FusionFailed ~> (FusionFailed /\ ret.final # NoFinal))

\* a run whose fusion step raised and whose final result has been compiled
C22_Witness ==
    /\ FusionFailed
    /\ ret.final # NoFinal
    /\ ret.final.status = "success"
    /\ ret.final.overall_risk_score = 50 * One

\* the submitted lifestyle data says that the user smokes
SaysSmokes(frontend_data) ==
    \/ frontend_data.smoking = [k |-> "bool", v |-> TRUE]
    \/ frontend_data.smoking = [k |-> "str", s |-> "yes"]

\* C30: in a full orchestration run the Smoking Cessation simulation is
\* generated only for a user whose submitted lifestyle data says they smoke;
\* with a smoking field of 'no', or none, no Smoking Cessation simulation
\* appears in the result.
C30_SmokingCessationOnlyForSmokers ==
    (/\ ret.op = "orchestrate"
     /\ ret.final # NoFinal
     /\ ret.final.status = "success")
    => \A i \in 1..Len(ret.final.what_if_simulations) :
          ret.final.what_if_simulations[i].intervention = "Smoking Cessation"
             => SaysSmokes(ret.frontend)

====
